---- MODULE Spec2Model ----
(***************************************************************************)
(* Model of the general instant-vector function operator                   *)
(* (execution/function/operator.go) and of the execution plan builder      *)
(* (newOperator).                                                          *)
(*                                                                         *)
(* Floats are modelled by small integers, with one reserved integer for    *)
(* not-a-number.  Go slices are sequences; Go indices are 0-based and are  *)
(* kept 0-based in the state (vectorIndex, pulled operator indices), the   *)
(* sequence access adds one.                                               *)
(***************************************************************************)
EXTENDS Integers, Sequences, FiniteSets, TLC

\* ------------------------------------------------------------------ bounds

\* Number of concurrent callers of Series/Next in Spec.
NumProcs == 2

\* Calls (Series or Next) one run issues.
MaxCalls == 3

\* Steps batch size of the operator in SpecBatch.
StepsBatch == 2

\* Longest series array the vector argument reports.
MaxSeries == 2

\* Deepest expression tree handed to the plan builder.
MaxDepth == 2

\* ------------------------------------------------------------------ values

\* math.NaN(): the reserved integer standing for not-a-number.
NaN == -1

NoErr == ""

\* The error Series of the vector argument fails with, and the error Next of
\* the child at operator index i fails with.
SeriesErr == "series failed"

NextErr(i) == << "next 0 failed", "next 1 failed", "next 2 failed" >>[i + 1]

\* ctx.Err() of a cancelled context.
CtxErr == "context canceled"

\* labels.MetricName
MetricName == "__name__"

\* A nil *histogram.FloatHistogram; a histogram is <<sum>>.
NilHistogram == << >>

\* A nil slice of labels.Labels, and a non-nil one.
NilSeries == [isNil |-> TRUE, elems |-> << >>]

SeriesOf(elems) == [isNil |-> FALSE, elems |-> elems]

\* ------------------------------------------------------------------ labels

\* labels.Labels: label pairs sorted by name ("A" < "__name__" < "job").
Label(n, v) == [Name |-> n, Value |-> v]

EmptyLabel == Label("", "")

LabelSets ==
  { << >>,
    << Label(MetricName, "m") >>,
    << Label("job", "j") >>,
    << Label("A", "a"), Label(MetricName, "m") >>,
    << Label("A", "a"), Label(MetricName, "m"), Label("job", "j") >> }

\* l.Range(func) of dropLabel: the builder's pairs and the dropped label
\* after visiting l[i..].
RECURSIVE dropLabelRange(_, _, _, _, _)
dropLabelRange(l, name, i, added, ret) ==
  IF i > Len(l) THEN << added, ret >>
  ELSE IF l[i].Name = name
       THEN dropLabelRange(l, name, i + 1, added, l[i])
       ELSE dropLabelRange(l, name, i + 1, Append(added, l[i]), ret)

\* dropLabel with the callback's return taken for the end of the range: the
\* labels after the dropped one are lost.
dropLabelStopsAtName(l, name) ==
  IF l = << >> THEN << l, EmptyLabel >>
  ELSE IF \E i \in 1..Len(l) : l[i].Name = name
  THEN LET at == CHOOSE i \in 1..Len(l) : l[i].Name = name
       IN << SubSeq(l, 1, at - 1), l[at] >>
  ELSE << l, EmptyLabel >>

dropLabel(l, name) ==
  IF l = << >> THEN << l, EmptyLabel >>
  ELSE dropLabelRange(l, name, 1, << >>, EmptyLabel)

DropMetricName(l) == dropLabel(l, MetricName)

\* ------------------------------------------------------------------ floats

IsNaN(x) == x = NaN

\* x < y on float64: false when either side is not-a-number.
FLt(x, y) == ~IsNaN(x) /\ ~IsNaN(y) /\ x < y

\* math.Max and math.Min: not-a-number when either side is.
FMax(x, y) == IF IsNaN(x) \/ IsNaN(y) THEN NaN ELSE IF x < y THEN y ELSE x

FMin(x, y) == IF IsNaN(x) \/ IsNaN(y) THEN NaN ELSE IF x < y THEN x ELSE y

\* ------------------------------------------------------------------ function bodies

\* funcExpr: the function's name and the value types of its arguments.
FuncExpr(name, args) == [Name |-> name, Args |-> args]

FuncExprs ==
  { FuncExpr("vector", << "scalar" >>),
    FuncExpr("histogram_sum", << "vector" >>),
    FuncExpr("clamp_min", << "vector", "scalar" >>),
    FuncExpr("histogram_fraction", << "scalar", "scalar", "vector" >>) }

Invalid == << 0, FALSE >>

\* instantVectorFuncs[name](v, h, vargs...): the result and its validity.
call(name, v, h, vargs) ==
  CASE name = "vector" ->
         IF h # NilHistogram THEN Invalid ELSE << v, TRUE >>
    [] name = "clamp_min" ->
         IF Len(vargs) # 1 THEN Invalid ELSE << FMax(vargs[1], v), TRUE >>
    [] name = "histogram_sum" ->
         IF h = NilHistogram THEN Invalid ELSE << h[1], TRUE >>
    [] name = "histogram_fraction" ->
         IF h = NilHistogram \/ Len(vargs) # 2 THEN Invalid
         ELSE IF IsNaN(vargs[1]) \/ IsNaN(vargs[2]) THEN << NaN, TRUE >>
         ELSE IF FLt(vargs[1], h[1]) /\ ~FLt(vargs[2], h[1])
              THEN << 1, TRUE >> ELSE << 0, TRUE >>
    [] OTHER -> Invalid

\* ------------------------------------------------------------------ step vectors

\* model.StepVector: scalar samples and histogram samples with their IDs.
StepVector(ids, samples, hids, hists) ==
  [SampleIDs |-> ids, Samples |-> samples, HistogramIDs |-> hids, Histograms |-> hists]

\* s[1..i-1] \o s[i+1..], i 1-based.
DeleteAt(s, i) == [k \in 1..(Len(s) - 1) |-> IF k < i THEN s[k] ELSE s[k + 1]]

\* StepVector.RemoveSample(index), index 0-based: in-place compaction.
RemoveSample(sv, index) ==
  [sv EXCEPT !.SampleIDs = DeleteAt(sv.SampleIDs, index + 1),
             !.Samples = DeleteAt(sv.Samples, index + 1)]

\* StepVector.RemoveHistogram(index), index 0-based.
RemoveHistogram(sv, index) ==
  [sv EXCEPT !.HistogramIDs = DeleteAt(sv.HistogramIDs, index + 1),
             !.Histograms = DeleteAt(sv.Histograms, index + 1)]

\* StepVector.AppendSample(pool, id, val).
AppendSample(sv, id, val) ==
  [sv EXCEPT !.SampleIDs = Append(sv.SampleIDs, id),
             !.Samples = Append(sv.Samples, val)]

\* The loop over the scalar samples with the index advanced after a removal
\* too: the sample that moved into the freed slot is skipped.
RECURSIVE applySamplesSkipsAfterRemove(_, _, _, _)
applySamplesSkipsAfterRemove(name, sv, scalars, i) ==
  IF ~(i < Len(sv.Samples)) THEN sv
  ELSE LET r == call(name, sv.Samples[i + 1], NilHistogram, scalars)
       IN IF r[2]
          THEN applySamplesSkipsAfterRemove(name, [sv EXCEPT !.Samples[i + 1] = r[1]],
                                            scalars, i + 1)
          ELSE applySamplesSkipsAfterRemove(name, RemoveSample(sv, i), scalars, i + 1)

\* The loop over the scalar samples of one step, from index i (0-based).
\* vector.Samples aliases vectors[batchIndex].Samples: RemoveSample compacts
\* the shared backing array, so both read the same element at index i.
RECURSIVE applySamples(_, _, _, _)
applySamples(name, sv, scalars, i) ==
  IF ~(i < Len(sv.Samples)) THEN sv
  ELSE LET r == call(name, sv.Samples[i + 1], NilHistogram, scalars)
       IN IF r[2]
          THEN applySamples(name, [sv EXCEPT !.Samples[i + 1] = r[1]], scalars, i + 1)
          ELSE applySamples(name, RemoveSample(sv, i), scalars, i)

\* The loop over the histogram samples of one step: i stays 0.
RECURSIVE applyHistograms(_, _, _)
applyHistograms(name, sv, scalars) ==
  IF ~(0 < Len(sv.Histograms)) THEN sv
  ELSE LET r == call(name, 0, sv.Histograms[1], scalars)
           sampleID == sv.HistogramIDs[1]
           removed == RemoveHistogram(sv, 0)
       IN applyHistograms(name,
                          IF r[2] THEN AppendSample(removed, sampleID, r[1]) ELSE removed,
                          scalars)

\* One iteration of "for batchIndex, vector := range vectors".
applyStep(name, sv, scalars) ==
  applyHistograms(name, applySamples(name, sv, scalars, 0), scalars)

\* ------------------------------------------------------------------ children

\* What a child's Next returns: an error, or a batch of step vectors.
Outcome(err, batch) == [err |-> err, batch |-> batch]

\* The outcome recorded for a child that was not pulled.
NotPulled == Outcome("not pulled", << >>)

\* Sequences over S of length 0..n.
SeqUpTo(S, n) == UNION { [1..k -> S] : k \in 0..n }

\* Steps the vector argument produces.
VectorSteps ==
  { StepVector(<< >>, << >>, << >>, << >>),
    StepVector(<< 0, 1 >>, << 0, 3 >>, << 2 >>, << << 2 >> >>),
    StepVector(<< 2 >>, << 3 >>, << 0, 1 >>, << << 1 >>, << 2 >> >>) }

\* Steps a scalar argument produces: no sample, one sample, or several.
ScalarSteps ==
  { StepVector(<< >>, << >>, << >>, << >>),
    StepVector(<< 0 >>, << 1 >>, << >>, << >>),
    StepVector(<< 0, 1 >>, << 2, 1 >>, << >>, << >>) }

\* A child returns at most stepsBatch steps per Next.
VectorOutcomes(i, stepsBatch) ==
  { Outcome(NextErr(i), << >>) }
    \cup { Outcome(NoErr, b) : b \in SeqUpTo(VectorSteps, stepsBatch) }

ScalarOutcomes(i, stepsBatch) ==
  { Outcome(NextErr(i), << >>) }
    \cup { Outcome(NoErr, b) : b \in SeqUpTo(ScalarSteps, stepsBatch) }

\* ------------------------------------------------------------------ Next, after loadSeries

\* The first argument typed as an instant vector, 0 when there is none.
vectorIndexOf(args) ==
  IF \E i \in 1..Len(args) : args[i] = "vector"
  THEN (CHOOSE i \in 1..Len(args) :
          args[i] = "vector" /\ \A k \in 1..(i - 1) : args[k] # "vector") - 1
  ELSE 0

\* make([][]float64, stepsBatch), each row make([]float64, len(nextOps)-1).
newScalarPoints(stepsBatch, nOps) ==
  [b \in 1..stepsBatch |-> [k \in 1..(nOps - 1) |-> 0]]

\* "for batchIndex := range vectors" for one scalar argument, from batchIndex.
\* Indexing scalarVectors or o.scalarPoints out of range panics.
RECURSIVE fillScalarPoints(_, _, _, _, _)
fillScalarPoints(sp, scalarVectors, nvec, scalarIndex, batchIndex) ==
  IF ~(batchIndex < nvec) THEN [panic |-> FALSE, sp |-> sp]
  ELSE IF Len(scalarVectors) > 0 /\ ~(batchIndex < Len(scalarVectors))
       THEN [panic |-> TRUE, sp |-> sp]
  ELSE IF ~(batchIndex < Len(sp)) THEN [panic |-> TRUE, sp |-> sp]
  ELSE LET val == IF Len(scalarVectors) > 0
                     /\ Len(scalarVectors[batchIndex + 1].Samples) > 0
                  THEN scalarVectors[batchIndex + 1].Samples[1]
                  ELSE NaN
       IN fillScalarPoints([sp EXCEPT ![batchIndex + 1][scalarIndex + 1] = val],
                           scalarVectors, nvec, scalarIndex, batchIndex + 1)

\* What one pull of a scalar argument leaves: it went "ok", the child failed
\* ("err"), or indexing panicked ("panic"); sp is o.scalarPoints after it.
Pulled(kind, err, sp) == [kind |-> kind, err |-> err, sp |-> sp]

\* The body of "for i := range o.nextOps" with the child's error dropped
\* instead of returned.
scalarPulledIgnoresErr(sp, sres, nvec, scalarIndex) ==
  LET f == fillScalarPoints(sp, sres.batch, nvec, scalarIndex, 0)
  IN IF f.panic THEN Pulled("panic", NoErr, f.sp) ELSE Pulled("ok", NoErr, f.sp)

\* The body of "for i := range o.nextOps" once o.nextOps[i].Next has
\* returned sres: the error is returned, or the scalar inputs of every step
\* of the vector batch (nvec steps) are filled at scalarIndex.
scalarPulled(sp, sres, nvec, scalarIndex) ==
  IF sres.err # NoErr THEN Pulled("err", sres.err, sp)
  ELSE LET f == fillScalarPoints(sp, sres.batch, nvec, scalarIndex, 0)
       IN IF f.panic THEN Pulled("panic", NoErr, f.sp) ELSE Pulled("ok", NoErr, f.sp)

\* The first operator index from i on that "for i := range o.nextOps" does
\* not skip; len(o.nextOps) or more when the loop is over.
nextScalarOp(vectorIndex, i) == IF i = vectorIndex THEN i + 1 ELSE i

Applied(kind, batch) == [kind |-> kind, batch |-> batch]

\* "for batchIndex, vector := range vectors": the function applied to every
\* sample of every step.  o.scalarPoints[batchIndex] panics for a step with
\* samples beyond the steps batch size.
applyBatch(name, vectors, sp) ==
  IF \E b \in (Len(sp) + 1)..Len(vectors) :
       Len(vectors[b].Samples) + Len(vectors[b].Histograms) > 0
  THEN Applied("panic", << >>)
  ELSE Applied("ok", [b \in 1..Len(vectors) |->
                        IF b > Len(sp) THEN vectors[b]
                        ELSE applyStep(name, vectors[b], sp[b])])

\* ------------------------------------------------------------------ state

Procs == 1..NumProcs

VARIABLES
  funcExpr,      \* o.funcExpr
  vectorIndex,   \* o.vectorIndex
  scalarPoints,  \* o.scalarPoints
  series,        \* o.series
  once,          \* o.once: "idle", "running" (a caller is inside Do) or "done"
  childSeries,   \* what Series of the vector argument returns
  seriesCalls,   \* calls made to Series of the vector argument
  ctxDone,       \* the context is cancelled
  pc,            \* where each caller is
  op,            \* the method each caller is in
  err,           \* the local err of each caller's loadSeries
  frame,         \* the locals of each caller's Next: vectors, i, scalarIndex
  ret,           \* what each caller's call returned
  trace,         \* what each caller's call did: children pulled, their batches
  ncalls,        \* calls issued so far
  returned,      \* series arrays the completed Series calls returned
  loadErr,       \* the error of the one-time series computation
  panicked,      \* a caller panicked: the process is gone
  expr,          \* the expression handed to the plan builder
  built          \* what the plan builder returned

vars == << funcExpr, vectorIndex, scalarPoints, series, once, childSeries,
           seriesCalls, ctxDone, pc, op, err, frame, ret, trace, ncalls,
           returned, loadErr, panicked, expr, built >>

Ret(kind, e, s, batch) == [kind |-> kind, err |-> e, series |-> s, batch |-> batch]

NoRet == Ret("none", NoErr, NilSeries, << >>)

Trace(cancelled, ran, vres, sres, pulls) ==
  [cancelled |-> cancelled, ran |-> ran, vres |-> vres, sres |-> sres, pulls |-> pulls]

NoTrace == Trace(FALSE, FALSE, NotPulled, << >>, << >>)

\* The locals of Next between two pulls: the vector batch, the operator to
\* pull next and the slot of the scalar-input arrays it fills.
Frame(vectors, i, scalarIndex) ==
  [vectors |-> vectors, i |-> i, scalarIndex |-> scalarIndex]

NoFrame == Frame(<< >>, 0, 0)

\* What Series of the vector argument returns: an error or a series array.
ChildSeries(e, elems) == [err |-> e, elems |-> elems]

ChildSeriesOutcomes ==
  { ChildSeries(SeriesErr, << >>) }
    \cup { ChildSeries(NoErr, a) : a \in SeqUpTo(LabelSets, MaxSeries) }

NoExpr == [kind |-> "none"]

NoBuilt == [kind |-> "none"]

\* The fields newInstantVectorFunctionOperator sets, and the children and
\* callers before any call.
InitOperator(stepsBatch, funcExprs, childSeriesSet) ==
  /\ funcExpr \in funcExprs
  /\ vectorIndex = vectorIndexOf(funcExpr.Args)
  /\ scalarPoints = newScalarPoints(stepsBatch, Len(funcExpr.Args))
  /\ series = NilSeries
  /\ once = "idle"
  /\ childSeries \in childSeriesSet
  /\ seriesCalls = 0
  /\ ctxDone = FALSE
  /\ pc = [p \in Procs |-> "idle"]
  /\ op = [p \in Procs |-> "none"]
  /\ err = [p \in Procs |-> NoErr]
  /\ frame = [p \in Procs |-> NoFrame]
  /\ ret = [p \in Procs |-> NoRet]
  /\ trace = [p \in Procs |-> NoTrace]
  /\ ncalls = 0
  /\ returned = {}
  /\ loadErr = NoErr
  /\ panicked = FALSE

\* ------------------------------------------------------------------ actions

\* The context is cancelled.
Cancel ==
  /\ ~panicked
  /\ ~ctxDone
  /\ ctxDone' = TRUE
  /\ UNCHANGED frame
  /\ UNCHANGED << funcExpr, vectorIndex, scalarPoints, series, once, childSeries,
                  seriesCalls, pc, op, err, ret, trace, ncalls,
                  returned, loadErr, panicked, expr, built >>

\* The operators Next pulls besides the vector argument.
ScalarOps == (0..(Len(funcExpr.Args) - 1)) \ { vectorIndex }

\* A caller enters Series: it goes to loadSeries.
CallSeries(p) ==
  /\ ~panicked
  /\ pc[p] = "idle"
  /\ ncalls < MaxCalls
  /\ ncalls' = ncalls + 1
  /\ op' = [op EXCEPT ![p] = "Series"]
  /\ err' = [err EXCEPT ![p] = NoErr]
  /\ trace' = [trace EXCEPT ![p] = Trace(ctxDone, FALSE, NotPulled, << >>, << >>)]
  /\ pc' = [pc EXCEPT ![p] = "load"]
  /\ UNCHANGED frame
  /\ UNCHANGED << funcExpr, vectorIndex, scalarPoints, series, once, childSeries,
                  seriesCalls, ctxDone, ret, returned, loadErr,
                  panicked, expr, built >>

\* Next without the select on ctx.Done().
nextEnterUnchecked(cancelled) == "load"

\* The select on ctx.Done() at the head of Next.
nextEnter(cancelled) == IF cancelled THEN "ret" ELSE "load"

\* A caller enters Next: it returns ctx.Err() when the context is cancelled,
\* and goes to loadSeries otherwise.
CallNext(p) ==
  /\ ~panicked
  /\ pc[p] = "idle"
  /\ ncalls < MaxCalls
  /\ ncalls' = ncalls + 1
  /\ op' = [op EXCEPT ![p] = "Next"]
  /\ err' = [err EXCEPT ![p] = NoErr]
  /\ trace' = [trace EXCEPT ![p] = Trace(ctxDone, FALSE, NotPulled,
                                          [i \in ScalarOps |-> NotPulled], << >>)]
  /\ pc' = [pc EXCEPT ![p] = nextEnter(ctxDone)]
  /\ ret' = [ret EXCEPT ![p] =
               IF nextEnter(ctxDone) = "ret"
               THEN Ret("err", CtxErr, NilSeries, << >>) ELSE NoRet]
  /\ UNCHANGED frame
  /\ UNCHANGED << funcExpr, vectorIndex, scalarPoints, series, once, childSeries,
                  seriesCalls, ctxDone, returned, loadErr, panicked,
                  expr, built >>

\* A Do that forgets it has run: only a running function holds callers back.
onceDoForgets(state) == IF state = "running" THEN "wait" ELSE "run"

\* sync.Once.Do: "run" the function, "skip" it, or "wait" for the caller
\* that is running it.
onceDo(state) ==
  CASE state = "idle" -> "run"
    [] state = "running" -> "wait"
    [] OTHER -> "skip"

\* o.once.Do(...) in loadSeries: the first caller starts the function, a
\* caller that finds it running blocks, a caller that finds it done returns
\* with its own err still nil.
OnceDo(p) ==
  /\ ~panicked
  /\ pc[p] = "load"
  /\ onceDo(once) # "wait"
  /\ IF onceDo(once) = "run"
     THEN /\ once' = "running"
          /\ pc' = [pc EXCEPT ![p] = "infn"]
          /\ trace' = [trace EXCEPT ![p].ran = TRUE]
     ELSE /\ pc' = [pc EXCEPT ![p] = "loaded"]
          /\ UNCHANGED << once, trace >>
  /\ UNCHANGED frame
  /\ UNCHANGED << funcExpr, vectorIndex, scalarPoints, series, childSeries,
                  seriesCalls, ctxDone, op, err, ret, ncalls,
                  returned, loadErr, panicked, expr, built >>

\* The series array loadSeries computes from the vector argument's array.
loadedSeries(elems) == SeriesOf([i \in 1..Len(elems) |-> DropMetricName(elems[i])[1]])

\* The function loadSeries hands to once.Do.
OnceFn(p) ==
  /\ ~panicked
  /\ pc[p] = "infn"
  /\ IF funcExpr.Name = "vector"
     THEN /\ series' = SeriesOf(<< << >> >>)
          /\ UNCHANGED << seriesCalls, err, loadErr >>
     ELSE /\ seriesCalls' = seriesCalls + 1
          /\ IF childSeries.err # NoErr
             THEN /\ err' = [err EXCEPT ![p] = childSeries.err]
                  /\ loadErr' = childSeries.err
                  /\ UNCHANGED series
             ELSE /\ series' = loadedSeries(childSeries.elems)
                  /\ UNCHANGED << err, loadErr >>
  /\ once' = "done"
  /\ pc' = [pc EXCEPT ![p] = "loaded"]
  /\ UNCHANGED frame
  /\ UNCHANGED << funcExpr, vectorIndex, scalarPoints, childSeries,
                  ctxDone, op, ret, trace, ncalls, returned, panicked, expr, built >>

\* What Series returns once loadSeries has returned e.
seriesResult(e, s) ==
  IF e # NoErr THEN Ret("err", e, NilSeries, << >>) ELSE Ret("ok", NoErr, s, << >>)

\* Series after loadSeries.
SeriesReturn(p) ==
  /\ ~panicked
  /\ pc[p] = "loaded"
  /\ op[p] = "Series"
  /\ ret' = [ret EXCEPT ![p] = seriesResult(err[p], series)]
  /\ returned' = returned \cup { seriesResult(err[p], series).series }
  /\ pc' = [pc EXCEPT ![p] = "ret"]
  /\ UNCHANGED frame
  /\ UNCHANGED << funcExpr, vectorIndex, scalarPoints, series, once, childSeries,
                  seriesCalls, ctxDone, op, err, trace, ncalls,
                  loadErr, panicked, expr, built >>

\* Next after loadSeries: it returns the error of loadSeries, or goes on to
\* pull the vector argument.
NextLoaded(p) ==
  /\ ~panicked
  /\ pc[p] = "loaded"
  /\ op[p] = "Next"
  /\ IF err[p] # NoErr
     THEN /\ ret' = [ret EXCEPT ![p] = Ret("err", err[p], NilSeries, << >>)]
          /\ pc' = [pc EXCEPT ![p] = "ret"]
     ELSE /\ pc' = [pc EXCEPT ![p] = "pull vector"]
          /\ UNCHANGED ret
  /\ UNCHANGED << funcExpr, vectorIndex, scalarPoints, series, once, childSeries,
                  seriesCalls, ctxDone, op, err, frame, trace, ncalls, returned,
                  loadErr, panicked, expr, built >>

\* Next from the return of the last child pull on: the function is applied
\* to the batch and the batch returned.
Finish(p, vectors, sp) ==
  LET a == applyBatch(funcExpr.Name, vectors, sp)
  IN /\ ret' = [ret EXCEPT ![p] = Ret(a.kind, NoErr, NilSeries, a.batch)]
     /\ panicked' = (a.kind = "panic")
     /\ pc' = [pc EXCEPT ![p] = "ret"]

\* o.nextOps[o.vectorIndex].Next returns: Next returns its error, returns
\* nothing for an empty batch, goes on to the first scalar argument, or,
\* without scalar arguments, applies the function and returns.
PullVector(p) ==
  /\ ~panicked
  /\ pc[p] = "pull vector"
  /\ \E vres \in VectorOutcomes(vectorIndex, Len(scalarPoints)) :
       /\ trace' = [trace EXCEPT ![p].vres = vres, ![p].pulls = << vectorIndex >>]
       /\ IF vres.err # NoErr
          THEN /\ ret' = [ret EXCEPT ![p] = Ret("err", vres.err, NilSeries, << >>)]
               /\ pc' = [pc EXCEPT ![p] = "ret"]
               /\ UNCHANGED << frame, panicked >>
          ELSE IF Len(vres.batch) = 0
          THEN /\ ret' = [ret EXCEPT ![p] = Ret("ok", NoErr, NilSeries, << >>)]
               /\ pc' = [pc EXCEPT ![p] = "ret"]
               /\ UNCHANGED << frame, panicked >>
          ELSE /\ frame' = [frame EXCEPT
                              ![p] = Frame(vres.batch, nextScalarOp(vectorIndex, 0), 0)]
               /\ IF nextScalarOp(vectorIndex, 0) < Len(funcExpr.Args)
                  THEN /\ pc' = [pc EXCEPT ![p] = "pull scalar"]
                       /\ UNCHANGED << ret, panicked >>
                  ELSE Finish(p, vres.batch, scalarPoints)
  /\ UNCHANGED << funcExpr, vectorIndex, scalarPoints, series, once, childSeries,
                  seriesCalls, ctxDone, op, err, ncalls, returned, loadErr,
                  expr, built >>

\* o.nextOps[i].Next of a scalar argument returns: Next returns its error,
\* or fills the scalar inputs and goes on to the next scalar argument, or,
\* after the last one, applies the function and returns.
PullScalar(p) ==
  /\ ~panicked
  /\ pc[p] = "pull scalar"
  /\ \E sres \in ScalarOutcomes(frame[p].i, Len(scalarPoints)) :
       LET f == frame[p]
           r == scalarPulled(scalarPoints, sres, Len(f.vectors), f.scalarIndex)
           i == nextScalarOp(vectorIndex, f.i + 1)
       IN /\ trace' = [trace EXCEPT ![p].sres[f.i] = sres,
                                    ![p].pulls = Append(trace[p].pulls, f.i)]
          /\ scalarPoints' = r.sp
          /\ IF r.kind # "ok"
             THEN /\ ret' = [ret EXCEPT ![p] = Ret(r.kind, r.err, NilSeries, << >>)]
                  /\ panicked' = (r.kind = "panic")
                  /\ pc' = [pc EXCEPT ![p] = "ret"]
                  /\ UNCHANGED frame
             ELSE /\ frame' = [frame EXCEPT ![p] = Frame(f.vectors, i, f.scalarIndex + 1)]
                  /\ IF i < Len(funcExpr.Args)
                     THEN UNCHANGED << pc, ret, panicked >>
                     ELSE Finish(p, f.vectors, r.sp)
  /\ UNCHANGED << funcExpr, vectorIndex, series, once, childSeries, seriesCalls,
                  ctxDone, op, err, ncalls, returned, loadErr, expr, built >>

\* The call is over: the caller may call again.
Return(p) ==
  /\ ~panicked
  /\ pc[p] = "ret"
  /\ pc' = [pc EXCEPT ![p] = "idle"]
  /\ op' = [op EXCEPT ![p] = "none"]
  /\ err' = [err EXCEPT ![p] = NoErr]
  /\ frame' = [frame EXCEPT ![p] = NoFrame]
  /\ ret' = [ret EXCEPT ![p] = NoRet]
  /\ trace' = [trace EXCEPT ![p] = NoTrace]
  /\ UNCHANGED << funcExpr, vectorIndex, scalarPoints, series, once, childSeries,
                  seriesCalls, ctxDone, ncalls, returned, loadErr,
                  panicked, expr, built >>

Step(p) ==
  \/ CallSeries(p)
  \/ OnceDo(p)
  \/ OnceFn(p)
  \/ SeriesReturn(p)
  \/ NextLoaded(p)
  \/ PullVector(p)
  \/ PullScalar(p)
  \/ Return(p)

\* Concurrent callers of one operator whose batches hold one step.
ConcurrentChildSeries ==
  { ChildSeries(SeriesErr, << >>),
    ChildSeries(NoErr, << << Label(MetricName, "m"), Label("job", "j") >> >>) }

Init ==
  /\ InitOperator(1, FuncExprs, ConcurrentChildSeries)
  /\ expr = NoExpr
  /\ built = NoBuilt

\* The operator has a single consumer, the first caller: it alone calls Next.
\* Every caller may call Series.
Consumer == CHOOSE p \in Procs : \A q \in Procs : p <= q

Next == Cancel \/ CallNext(Consumer) \/ \E p \in Procs : Step(p)

Spec == Init /\ [][Next]_vars

\* One consumer of an operator whose batches hold StepsBatch steps, for the
\* functions of at most one scalar argument.
BatchFuncExprs == { f \in FuncExprs : Len(f.Args) <= 2 }

BatchChildSeries ==
  { ChildSeries(NoErr, << << Label(MetricName, "m"), Label("job", "j") >> >>) }

InitBatch ==
  /\ InitOperator(StepsBatch, BatchFuncExprs, BatchChildSeries)
  /\ expr = NoExpr
  /\ built = NoBuilt

NextBatch == Cancel \/ CallNext(Consumer) \/ Step(Consumer)

SpecBatch == InitBatch /\ [][NextBatch]_vars

\* One consumer of the same functions, every series array of the vector
\* argument.
InitSeries ==
  /\ InitOperator(1, BatchFuncExprs, ChildSeriesOutcomes)
  /\ expr = NoExpr
  /\ built = NoBuilt

SpecSeries == InitSeries /\ [][NextBatch]_vars

\* ------------------------------------------------------------------ plan builder

\* parser.Expr nodes.
VectorSelector(matchers) == [kind |-> "VectorSelector", LabelMatchers |-> matchers]

MatrixSelector(vs, range) ==
  [kind |-> "MatrixSelector", VectorSelector |-> vs, Range |-> range]

Call(name, args) == [kind |-> "Call", Func |-> name, Args |-> args]

AggregateExpr(o, without, grouping, e) ==
  [kind |-> "AggregateExpr", Op |-> o, Without |-> without, Grouping |-> grouping,
   Expr |-> e]

NumberLiteral(v) == [kind |-> "NumberLiteral", Val |-> v]

\* Expression trees of depth at most d.  A call takes any expression as its
\* first argument and may take a number after it.
RECURSIVE Exprs(_)
Exprs(d) ==
  LET leaves == { VectorSelector("up"),
                  MatrixSelector(VectorSelector("up"), "5m"),
                  NumberLiteral(10),
                  Call("time", << >>) }
  IN IF d = 0 THEN leaves
     ELSE LET sub == Exprs(d - 1)
          IN leaves
               \cup { AggregateExpr(o, w, g, e) :
                        o \in { "sum", "count_values" }, w \in BOOLEAN,
                        g \in { << >>, << "job" >> }, e \in sub }
               \cup { Call("rate", << e >>) : e \in sub }
               \cup { Call("predict_linear", << e, NumberLiteral(10) >>) : e \in sub }

\* What newOperator hands back: an operator, an error, or a panic.
Built(o) == [kind |-> "op", op |-> o]

Failed(msg, e) == [kind |-> "err", msg |-> msg, expr |-> e]

Panic(msg) == [kind |-> "panic", msg |-> msg]

\* fmt.Errorf("unsupported expression %s", e)
Unsupported(e) == Failed("unsupported expression", e)

\* The concurrency decorator.
concurrent(o) == [type |-> "concurrent", next |-> o]

NewVectorSelector(matchers) == [type |-> "vectorSelector", matchers |-> matchers]

NewMatrixSelector(matchers, range) ==
  [type |-> "matrixSelector", matchers |-> matchers, range |-> range]

\* NewAggregate(input, aggregation, by, labels): an unknown aggregation is
\* rejected.
NewAggregate(input, aggregation, by, labels) ==
  IF aggregation \notin { "sum" }
  THEN Failed("unknown aggregation", aggregation)
  ELSE Built([type |-> "aggregate", next |-> input, aggregation |-> aggregation,
              by |-> by, labels |-> labels])

\* The flag without the negation.
aggregateByWithout(without) == without

\* The flag newOperator passes to NewAggregate: !e.Without.
aggregateBy(without) == ~without

RECURSIVE newOperator(_)
newOperator(e) ==
  CASE e.kind = "AggregateExpr" ->
         LET next == newOperator(e.Expr)
         IN IF next.kind # "op" THEN next
            ELSE LET aggregate ==
                       NewAggregate(next.op, e.Op, aggregateBy(e.Without), e.Grouping)
                 IN IF aggregate.kind # "op" THEN aggregate
                    ELSE Built(concurrent(aggregate.op))
    [] e.kind = "VectorSelector" ->
         Built(concurrent(NewVectorSelector(e.LabelMatchers)))
    [] e.kind = "Call" ->
         IF Len(e.Args) = 0 THEN Panic("index out of range [0] with length 0")
         ELSE IF e.Args[1].kind = "MatrixSelector"
         THEN IF e.Args[1].VectorSelector.kind # "VectorSelector"
              THEN Panic("interface conversion")
              ELSE Built(concurrent(
                     NewMatrixSelector(e.Args[1].VectorSelector.LabelMatchers,
                                       e.Args[1].Range)))
         ELSE Unsupported(e)
    [] OTHER -> Unsupported(e)

\* New(expr, ...): the plan for expr.
New ==
  /\ built = NoBuilt
  /\ built' = newOperator(expr)
  /\ UNCHANGED frame
  /\ UNCHANGED << funcExpr, vectorIndex, scalarPoints, series, once, childSeries,
                  seriesCalls, ctxDone, pc, op, err, ret, trace, ncalls,
                  returned, loadErr, panicked, expr >>

InitPlan ==
  /\ InitOperator(1, { FuncExpr("vector", << "scalar" >>) }, BatchChildSeries)
  /\ expr \in Exprs(MaxDepth)
  /\ built = NoBuilt

SpecPlan == InitPlan /\ [][New]_vars

\* ------------------------------------------------------------------ claims

\* A caller whose call is over and has not yet been taken back.
Returned(p) == pc[p] = "ret"

\* A Next call that got past the cancellation check.
NextRan(p) == Returned(p) /\ op[p] = "Next" /\ ~trace[p].cancelled

\* C1: however Series and Next are interleaved, Series of the vector argument
\* is invoked at most once and all Series calls return one and the same array.
T_C1 == seriesCalls <= 1 /\ Cardinality(returned) <= 1

\* C1 witness: a Next call ran the one-time computation, a Series call of
\* another caller went through the same Once, and both have returned.
W_C1 ==
  /\ seriesCalls = 1
  /\ \E p \in Procs, q \in Procs :
       /\ p # q
       /\ Returned(p) /\ op[p] = "Next" /\ trace[p].ran /\ ret[p].kind = "ok"
       /\ Returned(q) /\ op[q] = "Series" /\ ret[q].kind = "ok"
       /\ ret[q].series = series

\* C2: once Series of the vector argument has failed in the one-time
\* computation, every call (the one that ran it, the ones that waited, the
\* later ones) fails with that error and pulls no child.
CE_C2 ==
  loadErr # NoErr =>
    \A p \in Procs :
      (Returned(p) /\ (op[p] = "Series" \/ NextRan(p))) =>
        /\ ret[p].kind = "err"
        /\ ret[p].err = loadErr
        /\ trace[p].pulls = << >>

\* C3: Next called with the context already cancelled returns the context's
\* error and no batch within that call, pulls no child, calls no Series,
\* starts no series computation and leaves the scalar-input arrays alone.
T_C3 ==
  [][(ctxDone /\ pc[Consumer] = "idle" /\ op'[Consumer] = "Next") =>
       /\ pc'[Consumer] = "ret"
       /\ ret'[Consumer] = Ret("err", CtxErr, NilSeries, << >>)
       /\ trace'[Consumer].pulls = << >>
       /\ ~trace'[Consumer].ran
       /\ UNCHANGED << once, series, seriesCalls, scalarPoints, loadErr >>]_vars

\* C3 witness: a Next call made under a cancelled context has returned the
\* context's error.
W_C3 ==
  /\ Returned(Consumer) /\ op[Consumer] = "Next" /\ trace[Consumer].cancelled
  /\ ret[Consumer].err = CtxErr

\* The order in which Next pulls its children: the vector argument, then the
\* others in argument order.
PullOrder ==
  << vectorIndex >> \o
    [k \in 1..(Len(funcExpr.Args) - 1) |-> IF k - 1 < vectorIndex THEN k - 1 ELSE k]

IsPrefix(a, b) == Len(a) <= Len(b) /\ \A k \in 1..Len(a) : a[k] = b[k]

\* What the child at operator index i returned in caller p's Next.
PulledOutcome(p, i) == IF i = vectorIndex THEN trace[p].vres ELSE trace[p].sres[i]

\* A Next call suspended in the Next of a child.
Pulling(p) == pc[p] \in { "pull vector", "pull scalar" }

\* C4: when a child's Next fails in a Next call, the call returns that error
\* and no batch, and the failing child is the last one pulled: no scalar
\* argument after it, and none at all when the vector argument failed.  A
\* call that is still pulling has seen no child fail.
T_C4 ==
  \A p \in Procs :
    /\ Pulling(p) =>
         /\ IsPrefix(trace[p].pulls, PullOrder)
         /\ \A k \in 1..Len(trace[p].pulls) :
              PulledOutcome(p, trace[p].pulls[k]).err = NoErr
    /\ (NextRan(p) /\ err[p] = NoErr) =>
      /\ IsPrefix(trace[p].pulls, PullOrder)
      /\ \A k \in 1..Len(trace[p].pulls) :
           PulledOutcome(p, trace[p].pulls[k]).err # NoErr =>
             /\ k = Len(trace[p].pulls)
             /\ ret[p] = Ret("err", PulledOutcome(p, trace[p].pulls[k]).err,
                             NilSeries, << >>)

\* C4 witness: of two scalar arguments the first failed, the call returned
\* its error and the second was not pulled.
W_C4 ==
  /\ NextRan(Consumer)
  /\ Cardinality(ScalarOps) = 2
  /\ Len(trace[Consumer].pulls) = 2
  /\ ret[Consumer].kind = "err"
  /\ ret[Consumer].err = NextErr(trace[Consumer].pulls[2])

\* The input samples of a step for which the function body returns a valid
\* result, as pairs of sample ID and returned value.
ValidFloats(name, sv, scalars) ==
  { j \in 1..Len(sv.Samples) : call(name, sv.Samples[j], NilHistogram, scalars)[2] }

ValidHistograms(name, sv, scalars) ==
  { j \in 1..Len(sv.Histograms) : call(name, 0, sv.Histograms[j], scalars)[2] }

ExpectedSamples(name, sv, scalars) ==
  { << sv.SampleIDs[j], call(name, sv.Samples[j], NilHistogram, scalars)[1] >> :
      j \in ValidFloats(name, sv, scalars) }
    \cup
  { << sv.HistogramIDs[j], call(name, 0, sv.Histograms[j], scalars)[1] >> :
      j \in ValidHistograms(name, sv, scalars) }

\* C8: in every step of a non-empty batch Next returns, the scalar samples
\* are as many as the input samples (scalar and histogram) with a valid
\* result, no histogram is left, and each emitted sample has the ID of its
\* input sample and the value the function body returned for it.
T_C8 ==
  \A p \in Procs :
    (NextRan(p) /\ ret[p].kind = "ok" /\ ret[p].batch # << >>) =>
      /\ Len(ret[p].batch) = Len(trace[p].vres.batch)
      /\ \A k \in 1..Len(ret[p].batch) :
           LET in == trace[p].vres.batch[k]
               out == ret[p].batch[k]
               name == funcExpr.Name
           IN /\ out.Histograms = << >>
              /\ out.HistogramIDs = << >>
              /\ Len(out.SampleIDs) = Len(out.Samples)
              /\ Len(out.Samples) =
                   Cardinality(ValidFloats(name, in, scalarPoints[k]))
                     + Cardinality(ValidHistograms(name, in, scalarPoints[k]))
              /\ { << out.SampleIDs[j], out.Samples[j] >> : j \in 1..Len(out.Samples) }
                   = ExpectedSamples(name, in, scalarPoints[k])

\* C8 witness: a returned step whose two scalar samples were both removed
\* and whose histogram sample became the one scalar sample.
W_C8 ==
  /\ NextRan(Consumer) /\ ret[Consumer].kind = "ok"
  /\ \E k \in 1..Len(ret[Consumer].batch) :
       /\ Len(trace[Consumer].vres.batch[k].Samples) = 2
       /\ Len(trace[Consumer].vres.batch[k].Histograms) = 1
       /\ ret[Consumer].batch[k].SampleIDs = trace[Consumer].vres.batch[k].HistogramIDs

\* The value the scalar-input array holds for a scalar argument's batch at
\* step k: its first sample there, not-a-number when it has none.
ExpectedScalar(batch, k) ==
  IF k <= Len(batch) /\ Len(batch[k].Samples) > 0 THEN batch[k].Samples[1] ELSE NaN

\* The slot of operator j in a scalar-input array, 1-based.
ScalarSlot(j) == IF j < vectorIndex THEN j + 1 ELSE j

\* C9: in a Next call that pulled a non-empty vector batch and whose scalar
\* arguments all returned a batch, the scalar-input array of every step k
\* holds for every scalar argument the first sample of its batch at step k,
\* and not-a-number when the batch is empty, shorter than the vector batch or
\* without a sample at step k.
CE_C9 ==
  \A p \in Procs :
    (/\ NextRan(p) /\ err[p] = NoErr
     /\ trace[p].vres.err = NoErr /\ Len(trace[p].vres.batch) > 0
     /\ \A j \in ScalarOps : trace[p].sres[j].err = NoErr) =>
      /\ ret[p].kind = "ok"
      /\ \A k \in 1..Len(trace[p].vres.batch) : \A j \in ScalarOps :
           scalarPoints[k][ScalarSlot(j)] = ExpectedScalar(trace[p].sres[j].batch, k)

\* The labels of in other than the metric name, in the order of in.
KeepsAllButMetricName(in, out) ==
  /\ { out[k] : k \in 1..Len(out) } = { in[k] : k \in { i \in 1..Len(in) : in[i].Name # MetricName } }
  /\ Len(out) = Cardinality({ i \in 1..Len(in) : in[i].Name # MetricName })
  /\ \A a \in 1..Len(out) : \A b \in 1..Len(out) :
       a < b => \E i \in 1..Len(in) : \E j \in 1..Len(in) :
                  i < j /\ in[i] = out[a] /\ in[j] = out[b]

\* C10: the computed series array is as long as the vector argument's and its
\* entry i is that array's entry i without the metric name and with every
\* other label; for "vector" it is one empty label set and Series of the
\* argument is never called.
T_C10 ==
  (once = "done" /\ loadErr = NoErr) =>
    IF funcExpr.Name = "vector"
    THEN series = SeriesOf(<< << >> >>) /\ seriesCalls = 0
    ELSE /\ ~series.isNil
         /\ Len(series.elems) = Len(childSeries.elems)
         /\ \A i \in 1..Len(series.elems) :
              KeepsAllButMetricName(childSeries.elems[i], series.elems[i])

\* C10 witness: a computed array of two entries, one of which lost a metric
\* name that stood between two other labels.
W_C10 ==
  /\ once = "done" /\ loadErr = NoErr /\ funcExpr.Name # "vector"
  /\ Len(series.elems) = 2
  /\ \E i \in 1..2 :
       /\ Len(childSeries.elems[i]) = 3
       /\ series.elems[i] = << Label("A", "a"), Label("job", "j") >>

\* C5: the builder returns an operator or an error and never panics; an
\* expression of any other kind than aggregation, instant-vector selector or
\* call gets the "unsupported expression" error; the error of an
\* aggregation's inner expression is returned as it is.
CE_C5 ==
  built # NoBuilt =>
    /\ built.kind \in { "op", "err" }
    /\ expr.kind \notin { "AggregateExpr", "VectorSelector", "Call" } =>
         built = Unsupported(expr)
    /\ (expr.kind = "AggregateExpr" /\ newOperator(expr.Expr).kind = "err") =>
         built = newOperator(expr.Expr)

\* A call whose sole argument is a matrix selector.
SoleMatrixSelector(e) == Len(e.Args) = 1 /\ e.Args[1].kind = "MatrixSelector"

\* C6: a call that the builder answers becomes a wrapped matrix-selector
\* operator exactly when its sole argument is a matrix selector; every other
\* call is rejected as an unsupported expression.  (A call the builder
\* panics on is C5's matter.)
CE_C6 ==
  (built # NoBuilt /\ expr.kind = "Call" /\ built.kind # "panic") =>
    IF SoleMatrixSelector(expr)
    THEN built = Built(concurrent(
                   NewMatrixSelector(expr.Args[1].VectorSelector.LabelMatchers,
                                     expr.Args[1].Range)))
    ELSE built = Unsupported(expr)

\* An aggregation for which the builder returned an operator.
AggregateBuilt == built # NoBuilt /\ built.kind = "op" /\ expr.kind = "AggregateExpr"

\* C7 as claimed: the aggregate operator's flag is true exactly when the
\* expression groups by exclusion ("without").
CE_C7 ==
  AggregateBuilt =>
    /\ built.op.next.aggregation = expr.Op
    /\ built.op.next.labels = expr.Grouping
    /\ built.op.next.by = expr.Without

\* C7 amended: the aggregate operator gets the expression's aggregation
\* operator and grouping labels, and a flag that is true exactly when the
\* expression groups by inclusion ("by") and false exactly when it groups by
\* exclusion ("without").
T_C7 ==
  AggregateBuilt =>
    /\ built.op.type = "concurrent"
    /\ built.op.next.type = "aggregate"
    /\ built.op.next.aggregation = expr.Op
    /\ built.op.next.labels = expr.Grouping
    /\ built.op.next.by = ~expr.Without

\* C7 witness: an aggregation grouping by exclusion over a label was built
\* with the flag false.
W_C7 ==
  /\ AggregateBuilt
  /\ expr.Without /\ expr.Grouping = << "job" >>
  /\ built.op.next.by = FALSE

====
